---- MODULE Spec2Model ----
(***************************************************************************)
(* White-light scanning interferometry reconstruction: the CPS algorithm   *)
(* (process_cps_subpixel) and the FFT-phase algorithm (process_fft_phase,  *)
(* process_stack_fft) of src/src/processing.py and                         *)
(* src/src/fft_phase_extraction.py.                                        *)
(*                                                                         *)
(* Numbers.  The code computes in float64.  Here every real quantity is a  *)
(* fixed-point integer, and every arithmetic operation rounds its result   *)
(* to the nearest representable value, as float64 arithmetic does:         *)
(*   - intensities, envelopes, spectra: integer multiples of one intensity *)
(*     unit of 5e-13, so that the threshold 1e-12 of the subpixel fit is   *)
(*     two units;                                                          *)
(*   - scan positions and heights: integer multiples of one length unit;   *)
(*   - array positions (the fractional index): thousandths of a sample;    *)
(*   - angles: thousandths of a radian;                                    *)
(*   - twiddle factors and filter weights: tables of rounded values.       *)
(***************************************************************************)
EXTENDS Integers, Sequences, FiniteSets, TLC

\* ------------------------------------------------------------- bounds
\* Longest scan axis (n_z) a call is made with.
MaxNz == 4

\* The lateral pixels (yi, xi) of a stack, in the order of the pixel loop:
\* n_y = 1, n_x = 2.
PixelSeq == << <<0, 0>>, <<0, 1>> >>

Pixels == {PixelSeq[a] : a \in 1..Len(PixelSeq)}

RECURSIVE PxFrom(_, _)
\* The per-pixel map f with every pixel's entry computed once.
PxFrom(f, a) ==
    IF a >= Len(PixelSeq) THEN PixelSeq[a] :> f[PixelSeq[a]]
    ELSE (PixelSeq[a] :> f[PixelSeq[a]]) @@ PxFrom(f, a + 1)

PxMap(f) == PxFrom(f, 1)

\* Intensity samples the column of pixel p is built from (intensity units):
\* a column around zero (a stack with its mean removed) and a column on one
\* side of zero.
StackVals(p) == IF p = PixelSeq[1] THEN {-2000, 2000} ELSE {-3000, -1500}

\* Longest scan axis of the direct carrier-bin readout, of a pair of calls,
\* and the largest sample handed to the subpixel fit on its own.
MaxNzB == 5

MaxNzPair == 4

MaxSample == 3

\* Longest spectrum a band-pass window is designed for on its own.
MaxNzBand == 6

\* Envelope smoothing strengths (smooth_sigma) a call is made with.
SmoothSigmas == {1, 2}

\* Fractional bandwidths (band_frac), in percent.
BandFracs == {15, 100}

\* ------------------------------------------------------ fixed point
\* Scale of the twiddle-factor and band-pass tables (1.0 = TW).
TW == 1000

\* Scale of the fractional index (one sample = IDX).
IDX == 1000

\* pi in thousandths of a radian.
PI == 3142

\* The threshold 1e-12 of the subpixel fit, in intensity units of 5e-13.
EPS == 2

\* The value a float64 division by zero yields (inf or nan), kept apart
\* from every number.
NaN == "nan"

Abs(x) == IF x < 0 THEN -x ELSE x

Sign(x) == IF x < 0 THEN -1 ELSE IF x > 0 THEN 1 ELSE 0

Max(a, b) == IF a >= b THEN a ELSE b

Min(a, b) == IF a <= b THEN a ELSE b

\* a / b rounded to the nearest integer, halves away from zero (b # 0).
RoundDiv(a, b) ==
    Sign(a) * Sign(b) * ((2 * Abs(a) + Abs(b)) \div (2 * Abs(b)))

RECURSIVE SumTo(_, _, _)
\* f[lo] + ... + f[hi]
SumTo(f, lo, hi) == IF lo > hi THEN 0 ELSE f[lo] + SumTo(f, lo + 1, hi)

RECURSIVE Arr(_, _, _)
\* The array f over lo..hi with every element computed once (lo <= hi).
Arr(f, lo, hi) ==
    IF lo >= hi THEN lo :> f[lo] ELSE (lo :> f[lo]) @@ Arr(f, lo + 1, hi)

RECURSIVE SqrtSearch(_, _, _)
\* The largest r in lo..hi with r * r <= n.
SqrtSearch(n, lo, hi) ==
    IF lo >= hi THEN lo
    ELSE LET mid == (lo + hi + 1) \div 2
         IN  IF mid * mid <= n THEN SqrtSearch(n, mid, hi)
                               ELSE SqrtSearch(n, lo, mid - 1)

\* sqrt(n) rounded to the nearest integer (n >= 0).
Sqrt(n) ==
    LET r == SqrtSearch(n, 0, 46340)
    IN  IF n - r * r > r THEN r + 1 ELSE r

\* np.abs of a complex value [re, im].
CAbs(c) == Sqrt(c.re * c.re + c.im * c.im)

\* cos(2 pi k / n) * TW and sin(2 pi k / n) * TW for k = 0..n-1.
CosTab ==
    << <<1000>>,
       <<1000, -1000>>,
       <<1000, -500, -500>>,
       <<1000, 0, -1000, 0>>,
       <<1000, 309, -809, -809, 309>>,
       <<1000, 500, -500, -1000, -500, 500>> >>

SinTab ==
    << <<0>>,
       <<0, 0>>,
       <<0, 866, -866>>,
       <<0, 1000, 0, -1000>>,
       <<0, 951, 588, -588, -951>>,
       <<0, 866, 866, 0, -866, -866>> >>

Cos(n, k) == CosTab[n][(k % n) + 1]

Sin(n, k) == SinTab[n][(k % n) + 1]

\* scipy.fft.fft of a real sequence x over 0..n-1: X[k] = sum x[m] e^(-2 pi i m k / n)
fft(x, n) ==
    Arr([k \in 0..(n - 1) |->
        [re |-> RoundDiv(SumTo([m \in 0..(n - 1) |-> x[m] * Cos(n, m * k)], 0, n - 1), TW),
         im |-> RoundDiv(SumTo([m \in 0..(n - 1) |-> -(x[m] * Sin(n, m * k))], 0, n - 1), TW)]],
        0, n - 1)

\* scipy.fft.ifft of a complex sequence X: y[m] = (1/n) sum X[k] e^(+2 pi i m k / n)
ifft(X, n) ==
    Arr([m \in 0..(n - 1) |->
        [re |-> RoundDiv(SumTo([k \in 0..(n - 1) |->
                    X[k].re * Cos(n, m * k) - X[k].im * Sin(n, m * k)], 0, n - 1), TW * n),
         im |-> RoundDiv(SumTo([k \in 0..(n - 1) |->
                    X[k].re * Sin(n, m * k) + X[k].im * Cos(n, m * k)], 0, n - 1), TW * n)]],
        0, n - 1)

\* The one-sided weights of scipy.signal.hilbert: 1 at the zero bin (and at
\* the Nyquist bin of an even length), 2 at the positive bins, 0 elsewhere.
HilbertWeight(k, n) ==
    IF k = 0 THEN 1
    ELSE IF n % 2 = 0
         THEN (IF k < n \div 2 THEN 2 ELSE IF k = n \div 2 THEN 1 ELSE 0)
         ELSE (IF k < (n + 1) \div 2 THEN 2 ELSE 0)

\* scipy.signal.hilbert(x): the analytic signal of a real sequence.
hilbert(x, n) ==
    LET X == fft(x, n)
    IN  ifft(Arr([k \in 0..(n - 1) |->
                    [re |-> X[k].re * HilbertWeight(k, n),
                     im |-> X[k].im * HilbertWeight(k, n)]], 0, n - 1), n)

\* The Gaussian kernel of gaussian_filter1d, exp(-k^2 / (2 sigma^2)) * 10000
\* for k = 0..radius, radius = int(4 sigma + 0.5).
GaussTab ==
    << <<10000, 6065, 1353, 111, 3>>,
       <<10000, 8825, 6065, 3247, 1353, 439, 111, 22, 3>> >>

GaussRadius(sigma) == (8 * sigma + 1) \div 2

GaussWeight(sigma, k) == GaussTab[sigma][Abs(k) + 1]

GaussSum(sigma) ==
    SumTo([k \in (-GaussRadius(sigma))..GaussRadius(sigma) |-> GaussWeight(sigma, k)],
          -GaussRadius(sigma), GaussRadius(sigma))

\* gaussian_filter1d(e, sigma, axis=0, mode='nearest'): the normalised kernel
\* applied along the scan axis, the sequence extended by its edge values.
gaussian_filter1d(e, sigma, n) ==
    LET r == GaussRadius(sigma)
    IN  Arr([m \in 0..(n - 1) |->
                RoundDiv(SumTo([k \in (-r)..r |->
                            GaussWeight(sigma, k) * e[Max(0, Min(n - 1, m + k))]], -r, r),
                         GaussSum(sigma))], 0, n - 1)

\* np.argmax of f over 0..n-1: the first index of the maximum.
argmax(f, n) ==
    CHOOSE i \in 0..(n - 1) :
        /\ \A j \in 0..(n - 1) : f[j] <= f[i]
        /\ \A j \in 0..(i - 1) : f[j] < f[i]

\* A float64 division: a / b in thousandths, NaN when b = 0.
FDivIdx(a, b) == IF b = 0 THEN NaN ELSE RoundDiv(IDX * a, b)

\* The fit guarding only against a denominator of exactly zero.
parabolic_subpixel_exact_zero(vm1, v0, vp1) ==
    LET denom == vm1 - 2 * v0 + vp1
    IN  IF denom = 0 THEN 0
        ELSE FDivIdx(vm1 - vp1, 2 * denom)

\* _parabolic_subpixel(vm1, v0, vp1): the offset of the vertex of the
\* parabola through three samples, in thousandths of a sample.
parabolic_subpixel(vm1, v0, vp1) ==
    LET denom == vm1 - 2 * v0 + vp1
    IN  IF Abs(denom) < EPS THEN 0
        ELSE FDivIdx(vm1 - vp1, 2 * denom)

\* _parabolic_subpixel of fft_phase_extraction.py, the copy process_stack_fft
\* calls.
stack_fft_parabolic_subpixel(vm1, v0, vp1) ==
    LET denom == vm1 - 2 * v0 + vp1
    IN  IF Abs(denom) < EPS THEN 0
        ELSE FDivIdx(vm1 - vp1, 2 * denom)

\* The subpixel fit as function f reaches it.
subpixel(f, vm1, v0, vp1) ==
    IF f = "process_stack_fft" THEN stack_fft_parabolic_subpixel(vm1, v0, vp1)
    ELSE parabolic_subpixel(vm1, v0, vp1)

\* The interpolation taking the upper bracketing sample as its base.
interp_upper(x, fp, n) ==
    IF x < 0 THEN fp[0]
    ELSE IF x >= (n - 1) * IDX THEN fp[n - 1]
    ELSE LET j == x \div IDX
             r == x - j * IDX
         IN  IF r = 0 THEN fp[j]
             ELSE RoundDiv((fp[j + 1] - fp[j]) * r, IDX) + fp[j + 1]

\* np.interp(x, arange(n), fp): fp[0] left of the samples, fp[n-1] right of
\* them, the sample itself at a sample position, else the line between the
\* two bracketing samples.
interp(x, fp, n) ==
    IF x < 0 THEN fp[0]
    ELSE IF x >= (n - 1) * IDX THEN fp[n - 1]
    ELSE LET j == x \div IDX
             r == x - j * IDX
         IN  IF r = 0 THEN fp[j]
             ELSE RoundDiv((fp[j + 1] - fp[j]) * r, IDX) + fp[j]

\* ------------------------------------------------------ FFT phase
\* The numerator of fftfreq(n, d)[k] = FreqNum / (n d): 0, 1, ... up to
\* (n-1) div 2, then the negative frequencies.
FreqNum(k, n) == IF k <= (n - 1) \div 2 THEN k ELSE k - n

\* The sign of fftfreq(n_z, d=dz)[k].
FreqSign(k, n, dz) == Sign(FreqNum(k, n)) * Sign(dz)

\* analytic_mask: 2 at the strictly positive frequencies, then 1 where
\* np.isclose(freqs, 0.0) (the zero bin), 0 at the negative frequencies.
analytic_mask(k, n, dz) ==
    IF FreqNum(k, n) = 0 THEN 1
    ELSE IF FreqSign(k, n, dz) > 0 THEN 2 ELSE 0

\* The half bandwidth rounded to the nearest integer instead of truncated.
half_bw_rounded(n, bf) == Max(2, RoundDiv(n * bf, 200))

\* half_bw = max(2, int(n_z * band_frac / 2)), band_frac in percent.
half_bw(n, bf) == Max(2, (n * bf) \div 200)

\* sigma = max(1.0, half_bw / 2.0), in halves.
sigma2(hb) == Max(2, hb)

\* exp(-0.5 (d / sigma)^2) * TW for sigma = 1, 1.5, 2 and d = 0..7.
BandTab ==
    << <<1000, 607, 135, 11, 0, 0, 0, 0>>,
       <<1000, 801, 411, 135, 29, 4, 0, 0>>,
       <<1000, 882, 607, 325, 135, 44, 11, 2>> >>

\* band[k] = exp(-0.5 ((k - center_idx) / sigma)^2)
band(k, center, n, bf) == BandTab[sigma2(half_bw(n, bf)) - 1][Abs(k - center) + 1]

\* mean_spectrum[k] = mean over the pixels of |stack_fft[k]|.
mean_spectrum(S, n) ==
    Arr([k \in 0..(n - 1) |->
            RoundDiv(SumTo([a \in 1..Len(PixelSeq) |-> CAbs(S[PixelSeq[a]][k])],
                           1, Len(PixelSeq)),
                     Len(PixelSeq))], 0, n - 1)

\* arctan(k/8) for k = 0..8, in thousandths of a radian.
AtanTab == <<0, 124, 245, 359, 464, 559, 644, 719, 785>>

\* arctan(y / x) for 0 <= y <= x, x > 0, rounded to thousandths of a radian.
Atan01(y, x) ==
    LET j == (8 * y) \div x
    IN  IF j >= 8 THEN AtanTab[9]
        ELSE AtanTab[j + 1]
             + RoundDiv((AtanTab[j + 2] - AtanTab[j + 1]) * (8 * y - j * x), x)

\* The angle taken in [0, 2 PI) rather than wrapped around zero.
angle_positive(re, im) ==
    LET a == Abs(im)
        b == Abs(re)
        first == IF a = 0 THEN 0
                 ELSE IF a <= b THEN Atan01(a, b)
                 ELSE (PI \div 2) - Atan01(b, a)
        theta == IF re < 0 THEN PI - first ELSE first
    IN  IF im < 0 THEN 2 * PI - theta ELSE theta

\* np.angle(re + 1j im) = arctan2(im, re), rounded to thousandths of a
\* radian: the result of largest magnitude is PI, of either sign.
angle(re, im) ==
    LET a == Abs(im)
        b == Abs(re)
        first == IF a = 0 THEN 0
                 ELSE IF a <= b THEN Atan01(a, b)
                 ELSE (PI \div 2) - Atan01(b, a)
        theta == IF re < 0 THEN PI - first ELSE first
    IN  IF im < 0 THEN -theta ELSE theta

\* ------------------------------------------------------ per pixel
\* What the pixel loop leaves for one pixel: the integer peak, the index the
\* fit is made at, the three samples handed to the subpixel fit (fitted says
\* whether it was called), the offset it returned, the two outputs, and the
\* pixel's envelope and smoothed envelope.
PixelResult(peak, i, fitted, vm1, v0, vp1, shift, value, coherence, env, smooth) ==
    [peak |-> peak, i |-> i, fitted |-> fitted, vm1 |-> vm1, v0 |-> v0, vp1 |-> vp1,
     shift |-> shift, value |-> value, coherence |-> coherence,
     envelope |-> env, envelope_smooth |-> smooth]

\* np.abs of a complex stack, pixel by pixel along the scan axis.
stack_abs(A, n) ==
    PxMap([p \in Pixels |-> Arr([m \in 0..(n - 1) |-> CAbs(A[p][m])], 0, n - 1)])

\* gaussian_filter1d(envelope, sigma=smooth_sigma, axis=0, mode='nearest')
stack_smooth(E, sigma, n) ==
    PxMap([p \in Pixels |-> gaussian_filter1d(E[p], sigma, n)])

\* The peak search reading the first pixel's column for every pixel.
peak_idx_shared(ES, n) == PxMap([p \in Pixels |-> argmax(ES[PixelSeq[1]], n)])

\* np.argmax(envelope_smooth, axis=0): each pixel's own first maximum.
peak_idx(ES, n) == PxMap([p \in Pixels |-> argmax(ES[p], n)])

\* The boundary branch reading the scan axis at its first point.
cps_boundary_first(i, envelope_smooth, z) ==
    [value |-> z[0], coherence |-> envelope_smooth[i]]

\* The inner branch interpolating the smoothed envelope for the coherence.
cps_refined_smooth(i, shift, envelope, envelope_smooth, z, n) ==
    LET float_idx == i * IDX + shift
    IN  [value |-> interp(float_idx, z, n),
         coherence |-> interp(float_idx, envelope_smooth, n)]

\* The CPS pixel loop at a peak on either end of the axis: the height is the
\* scan position there, the coherence the smoothed envelope there.
cps_boundary(i, envelope_smooth, z) ==
    [value |-> z[i], coherence |-> envelope_smooth[i]]

\* The CPS pixel loop at an inner peak, given the offset of the fit: the scan
\* axis and the raw envelope interpolated at the fractional index.
cps_refined(i, shift, envelope, envelope_smooth, z, n) ==
    LET float_idx == i * IDX + shift
    IN  [value |-> interp(float_idx, z, n),
         coherence |-> interp(float_idx, envelope, n)]

\* The CPS pixel loop, one pixel with integer peak i.
cps_pixel(i, envelope, envelope_smooth, z, n) ==
    IF i <= 0 \/ i >= n - 1
    THEN LET r == cps_boundary(i, envelope_smooth, z)
         IN  PixelResult(i, i, FALSE, 0, 0, 0, 0, r.value, r.coherence,
                         envelope, envelope_smooth)
    ELSE LET vm1 == envelope_smooth[i - 1]
             v0 == envelope_smooth[i]
             vp1 == envelope_smooth[i + 1]
             shift == parabolic_subpixel(vm1, v0, vp1)
             r == cps_refined(i, shift, envelope, envelope_smooth, z, n)
         IN  PixelResult(i, i, TRUE, vm1, v0, vp1, shift, r.value, r.coherence,
                         envelope, envelope_smooth)

\* The bounds protection moving a peak on the last index to index 1.
clamp_peak_to_first(peak, n) ==
    LET a == IF peak <= 0 THEN 1 ELSE peak
    IN  IF a >= n - 1 THEN 1 ELSE a

\* The loop bounds protection of the FFT-phase pixel loop:
\* if i <= 0: i = 1; if i >= n_z - 1: i = n_z - 2.
clamp_peak(peak, n) ==
    LET a == IF peak <= 0 THEN 1 ELSE peak
    IN  IF a >= n - 1 THEN n - 2 ELSE a

\* The FFT-phase pixel loop, one pixel with integer peak `peak`: the fit at
\* the clamped index, then the analytic signal's real and imaginary parts
\* and the envelope interpolated at the fractional index.
fft_pixel(f, peak, analytic, envelope, envelope_smooth, n) ==
    LET i == clamp_peak(peak, n)
        vm1 == envelope_smooth[i - 1]
        v0 == envelope_smooth[i]
        vp1 == envelope_smooth[i + 1]
        shift == subpixel(f, vm1, v0, vp1)
        float_idx == i * IDX + shift
        real_seq == Arr([m \in 0..(n - 1) |-> analytic[m].re], 0, n - 1)
        imag_seq == Arr([m \in 0..(n - 1) |-> analytic[m].im], 0, n - 1)
        real_val == interp(float_idx, real_seq, n)
        imag_val == interp(float_idx, imag_seq, n)
    IN  PixelResult(peak, i, TRUE, vm1, v0, vp1, shift,
                    angle(real_val, imag_val),
                    interp(float_idx, envelope, n),
                    envelope, envelope_smooth)

\* The band-passed analytic signal of every pixel: the spectrum times
\* band * analytic_mask, transformed back.
fft_analytic(S, center, z, bf, n) ==
    LET dz == z[1] - z[0]
    IN  PxMap([p \in Pixels |->
            ifft(Arr([k \in 0..(n - 1) |->
                    [re |-> RoundDiv(S[p][k].re * band(k, center, n, bf)
                                       * analytic_mask(k, n, dz), TW),
                     im |-> RoundDiv(S[p][k].im * band(k, center, n, bf)
                                       * analytic_mask(k, n, dz), TW)]], 0, n - 1), n)])

\* ------------------------------------------------------ the calls
\* What a call leaves: how it ended, the stages it ran, the carrier index
\* (FFT phase), and the pixel loop's results.
Outcome(st, stages, center, results) ==
    [status |-> st, steps |-> stages, center_idx |-> center, px |-> results]

\* process_cps_subpixel(stack, z_scan, smooth_sigma)
cps_call(stk, z, sigma, n) ==
    LET analytic_stack == PxMap([p \in Pixels |-> hilbert(stk[p], n)])
        envelope == stack_abs(analytic_stack, n)
        envelope_smooth == stack_smooth(envelope, sigma, n)
        peak_idx_int == peak_idx(envelope_smooth, n)
    IN  Outcome("returned", <<"hilbert", "gaussian_filter1d", "argmax", "z_scan">>, -1,
                PxMap([p \in Pixels |->
                    cps_pixel(peak_idx_int[p], envelope[p], envelope_smooth[p], z, n)]))

\* The length check with its comparison off by one.
too_few_samples_inclusive(n) == n <= 3

\* if n_z < 3: raise ValueError

too_few_samples(n) == n < 3

\* process_fft_phase(stack, z_scan, smooth_sigma, band_frac), and
\* process_stack_fft of fft_phase_extraction.py, which is the same code.
fft_call(f, stk, z, sigma, bf, n) ==
    IF too_few_samples(n)
    THEN Outcome("ValueError", <<>>, -1, <<>>)
    ELSE LET stack_fft == PxMap([p \in Pixels |-> fft(stk[p], n)])
             center == argmax(mean_spectrum(stack_fft, n), n)
             analytic_stack == fft_analytic(stack_fft, center, z, bf, n)
             envelope == stack_abs(analytic_stack, n)
             envelope_smooth == stack_smooth(envelope, sigma, n)
             peak == peak_idx(envelope_smooth, n)
         IN  Outcome("returned",
                     <<"z_scan", "fft", "fftfreq", "ifft", "gaussian_filter1d", "argmax">>,
                     center,
                     PxMap([p \in Pixels |->
                         fft_pixel(f, peak[p], analytic_stack[p], envelope[p],
                                   envelope_smooth[p], n)]))

\* The strictly positive frequency bins of the forward transform.
positive_bins(z, n) ==
    {k \in 0..(n - 1) : FreqSign(k, n, IF n >= 2 THEN z[1] - z[0] ELSE 1) > 0}

\* The carrier searched over every bin, the zero and negative ones included.
carrier_bin_all(ms, bins) ==
    CHOOSE k \in DOMAIN ms :
        /\ \A j \in DOMAIN ms : ms[j] <= ms[k]
        /\ \A j \in DOMAIN ms : j < k => ms[j] < ms[k]

\* The carrier of the direct readout: the positive bin with the largest
\* pixel-averaged magnitude, the first one on ties.
carrier_bin(ms, bins) ==
    CHOOSE k \in bins :
        /\ \A j \in bins : ms[j] <= ms[k]
        /\ \A j \in bins : j < k => ms[j] < ms[k]

\* FFT phase, direct carrier-bin readout: the phase and magnitude of each
\* pixel's spectral value at the carrier bin.
mode_b_call(stk, z, n) ==
    IF positive_bins(z, n) = {}
    THEN Outcome("CarrierNotFound", <<"fft", "fftfreq">>, -1, <<>>)
    ELSE LET stack_fft == PxMap([p \in Pixels |-> fft(stk[p], n)])
             carrier == carrier_bin(mean_spectrum(stack_fft, n), positive_bins(z, n))
         IN  Outcome("returned", <<"fft", "fftfreq">>, carrier,
                     PxMap([p \in Pixels |->
                         PixelResult(carrier, carrier, FALSE, 0, 0, 0, 0,
                                     angle(stack_fft[p][carrier].re, stack_fft[p][carrier].im),
                                     CAbs(stack_fft[p][carrier]), <<>>, <<>>)]))

\* ------------------------------------------------------ state
VARIABLES
    fn,            \* the function called last ("none" before the first call)
    stack,         \* its stack argument: pixel -> intensities along the scan axis
    z_scan,        \* its scan axis
    n_z,           \* the stack's length along the scan axis
    smooth_sigma,  \* its smoothing strength
    band_frac,     \* its fractional bandwidth in percent (FFT phase)
    result,        \* the Outcome of the call
    prev,          \* the call before it, as [fn, stack, z_scan, ..., result]
    tri,           \* the three samples handed to the subpixel fit on its own
    off,           \* what the fit returned for them
    win            \* the band-pass window designed on its own

vars == <<fn, stack, z_scan, n_z, smooth_sigma, band_frac, result, prev, tri, off, win>>

NoCall == [fn |-> "none"]

NoTriple == <<>>

NoOffset == [fn |-> "none", value |-> 0]

NoWindow == [designed |-> FALSE]

\* The stacks and scan axes calls are made with.
Columns(p, n) == [0..(n - 1) -> StackVals(p)]

Stacks(n) ==
    { (PixelSeq[1] :> c1) @@ (PixelSeq[2] :> c2) :
          c1 \in Columns(PixelSeq[1], n), c2 \in Columns(PixelSeq[2], n) }

UniformAxis(n) == [m \in 0..(n - 1) |-> 100 * m - 200]

ZAxes(n) == {UniformAxis(n), [m \in 0..(n - 1) |-> 10 * m * m + 30 * m - 70]}

NoOutcome == Outcome("none", <<>>, -1, <<>>)

Init ==
    /\ fn = "none"
    /\ stack = <<>>
    /\ z_scan = <<>>
    /\ n_z = 0
    /\ smooth_sigma = 0
    /\ band_frac = 0
    /\ result = NoOutcome
    /\ prev = NoCall
    /\ tri = NoTriple
    /\ off = NoOffset
    /\ win = NoWindow

\* A call of f with the given arguments, which ends as out.  The code is
\* synchronous: a call is made when no call is under way.
Invoke(f, stk, z, n, sigma, bf, out) ==
    /\ fn' = f
    /\ stack' = stk
    /\ z_scan' = z
    /\ n_z' = n
    /\ smooth_sigma' = sigma
    /\ band_frac' = bf
    /\ result' = out

\* What a call of f with these arguments ends as.
run(f, stk, z, sigma, bf, n) ==
    IF f = "process_cps_subpixel" THEN cps_call(stk, z, sigma, n)
    ELSE IF f = "fft_phase_mode_b" THEN mode_b_call(stk, z, n)
    ELSE fft_call(f, stk, z, sigma, bf, n)

CallCps ==
    /\ fn = "none"
    /\ \E n \in 1..MaxNz : \E stk \in Stacks(n), z \in ZAxes(n), sigma \in SmoothSigmas :
          Invoke("process_cps_subpixel", stk, z, n, sigma, 0,
                 run("process_cps_subpixel", stk, z, sigma, 0, n))
    /\ UNCHANGED <<prev, tri, off, win>>

CallFftPhase ==
    /\ fn = "none"
    /\ \E n \in 1..MaxNz : \E stk \in Stacks(n), sigma \in SmoothSigmas, bf \in BandFracs :
          Invoke("process_fft_phase", stk, UniformAxis(n), n, sigma, bf,
                 run("process_fft_phase", stk, UniformAxis(n), sigma, bf, n))
    /\ UNCHANGED <<prev, tri, off, win>>

CallStackFft ==
    /\ fn = "none"
    /\ \E n \in 1..MaxNz : \E stk \in Stacks(n), sigma \in SmoothSigmas, bf \in BandFracs :
          Invoke("process_stack_fft", stk, UniformAxis(n), n, sigma, bf,
                 run("process_stack_fft", stk, UniformAxis(n), sigma, bf, n))
    /\ UNCHANGED <<prev, tri, off, win>>

\* The caller takes the maps (or the exception) of the finished call; the
\* functions keep nothing of it.
Release ==
    /\ fn # "none"
    /\ Invoke("none", <<>>, <<>>, 0, 0, 0, NoOutcome)
    /\ prev' = NoCall
    /\ UNCHANGED <<tri, off, win>>

Next == CallCps \/ CallFftPhase \/ CallStackFft \/ Release

Spec == Init /\ [][Next]_vars

\* ------------------------------------------- the two FFT-phase modes
\* The envelope-peak mode with the default options, and the direct
\* carrier-bin readout, on scan axes of up to MaxNzB points.
CallModeA ==
    /\ fn = "none"
    /\ \E n \in 1..MaxNzB : \E stk \in Stacks(n) :
          Invoke("process_fft_phase", stk, UniformAxis(n), n, 1, 15,
                 run("process_fft_phase", stk, UniformAxis(n), 1, 15, n))
    /\ UNCHANGED <<prev, tri, off, win>>

CallModeB ==
    /\ fn = "none"
    /\ \E n \in 1..MaxNzB : \E stk \in Stacks(n) :
          Invoke("fft_phase_mode_b", stk, UniformAxis(n), n, 0, 0,
                 run("fft_phase_mode_b", stk, UniformAxis(n), 0, 0, n))
    /\ UNCHANGED <<prev, tri, off, win>>

NextMode == CallModeA \/ CallModeB \/ Release

ModeSpec == Init /\ [][NextMode]_vars

\* ------------------------------------------- a pair of calls
\* A first call on a scan axis of up to MaxNzPair points.
FirstCall ==
    /\ fn = "none"
    /\ \E f \in {"process_cps_subpixel", "process_fft_phase"} :
       \E n \in 1..MaxNzPair : \E stk \in Stacks(n) :
          Invoke(f, stk, UniformAxis(n), n, 1, 15,
                 run(f, stk, UniformAxis(n), 1, 15, n))
    /\ UNCHANGED <<prev, tri, off, win>>

\* The same function called again with the same scan axis and options on the
\* stack with one sample of one pixel's column changed: every other pixel
\* has the column it had in the first call, which prev keeps.
SecondCall ==
    /\ fn # "none"
    /\ prev = NoCall
    /\ \E q \in Pixels : \E m \in 0..(n_z - 1) : \E v \in StackVals(q) \ {stack[q][m]} :
          LET stk == [stack EXCEPT ![q] = [stack[q] EXCEPT ![m] = v]]
          IN  Invoke(fn, stk, z_scan, n_z, smooth_sigma, band_frac,
                     run(fn, stk, z_scan, smooth_sigma, band_frac, n_z))
    /\ prev' = [fn |-> fn, stack |-> stack, result |-> result]
    /\ UNCHANGED <<tri, off, win>>

NextPair == FirstCall \/ SecondCall \/ Release

PairSpec == Init /\ [][NextPair]_vars

\* ------------------------------------------- the subpixel fit on its own
Triples == {<<a, b, c>> : a \in 0..MaxSample, b \in 0..MaxSample, c \in 0..MaxSample}

InitSub ==
    /\ fn = "none"
    /\ stack = <<>>
    /\ z_scan = <<>>
    /\ n_z = 0
    /\ smooth_sigma = 0
    /\ band_frac = 0
    /\ result = NoOutcome
    /\ prev = NoCall
    /\ tri \in Triples
    /\ off = NoOffset
    /\ win = NoWindow

\* _parabolic_subpixel of processing.py applied to tri.
FitProcessing ==
    /\ off = NoOffset
    /\ off' = [fn |-> "processing._parabolic_subpixel",
               value |-> subpixel("process_fft_phase", tri[1], tri[2], tri[3])]
    /\ UNCHANGED <<fn, stack, z_scan, n_z, smooth_sigma, band_frac, result, prev, tri, win>>

\* _parabolic_subpixel of fft_phase_extraction.py applied to tri.
FitStackFft ==
    /\ off = NoOffset
    /\ off' = [fn |-> "fft_phase_extraction._parabolic_subpixel",
               value |-> subpixel("process_stack_fft", tri[1], tri[2], tri[3])]
    /\ UNCHANGED <<fn, stack, z_scan, n_z, smooth_sigma, band_frac, result, prev, tri, win>>

NextSub == FitProcessing \/ FitStackFft

SubSpec == InitSub /\ [][NextSub]_vars

\* ------------------------------------------- the band-pass window on its own
\* The window of process_fft_phase for a pixel-averaged magnitude spectrum
\* ms on n bins: its centre, half bandwidth, sigma (in halves) and weights.
design_band(ms, n, bf) ==
    LET center_idx == argmax(ms, n)
    IN  [designed |-> TRUE,
         mean_spectrum |-> ms,
         center_idx |-> center_idx,
         half_bw |-> half_bw(n, bf),
         sigma2 |-> sigma2(half_bw(n, bf)),
         band |-> Arr([k \in 0..(n - 1) |-> band(k, center_idx, n, bf)], 0, n - 1)]

\* Pixel-averaged magnitudes and fractional bandwidths (percent) the window
\* is designed for.
BandMags == {0, 1000, 2000}

WideBandFracs == {15, 50, 90, 100}

InitBand ==
    /\ fn = "none"
    /\ stack = <<>>
    /\ z_scan = <<>>
    /\ n_z \in 3..MaxNzBand
    /\ smooth_sigma = 0
    /\ band_frac \in WideBandFracs
    /\ result = NoOutcome
    /\ prev = NoCall
    /\ tri = NoTriple
    /\ off = NoOffset
    /\ win \in [designed : {FALSE}, mean_spectrum : [0..(n_z - 1) -> BandMags]]

DesignBand ==
    /\ ~win.designed
    /\ win' = design_band(win.mean_spectrum, n_z, band_frac)
    /\ UNCHANGED <<fn, stack, z_scan, n_z, smooth_sigma, band_frac, result, prev, tri, off>>

NextBand == DesignBand

BandSpec == InitBand /\ [][NextBand]_vars

\* ------------------------------------------- properties
FftFunctions == {"process_fft_phase", "process_stack_fft"}

\* C1: an FFT-phase call on a scan axis of fewer than 3 points ends in the
\* insufficient-samples error (ValueError) with no stage run before it: no
\* read of the scan axis, no transform, no output; on a scan axis of exactly
\* 3 points the error is not raised.
C1_FftLengthCheck ==
    fn \in FftFunctions =>
        /\ n_z < 3 => /\ result.status = "ValueError"
                      /\ result.steps = <<>>
                      /\ result.px = <<>>
        /\ n_z = 3 => result.status = "returned"

C1_Witness ==
    /\ fn = "process_fft_phase"
    /\ n_z = 2
    /\ result.status = "ValueError"
    /\ result.steps = <<>>

\* C2 as stated: a CPS call on a scan axis of fewer than 3 points ends in the
\* insufficient-samples error.
C2_CpsRaisesOnShortAxis ==
    (fn = "process_cps_subpixel" /\ n_z < 3) => result.status # "returned"

\* C2: a CPS call on a scan axis of 1 or 2 points raises no error: it runs
\* all its stages and returns both maps, every pixel on the boundary path
\* (height = the scan position at the peak, coherence = the smoothed envelope
\* there, no subpixel fit).
C2_CpsReturnsOnShortAxis ==
    (fn = "process_cps_subpixel" /\ n_z < 3) =>
        /\ result.status = "returned"
        /\ result.steps # <<>>
        /\ \A p \in Pixels :
              /\ result.px[p].peak \in {0, n_z - 1}
              /\ ~result.px[p].fitted
              /\ result.px[p].value = z_scan[result.px[p].peak]
              /\ result.px[p].coherence = result.px[p].envelope_smooth[result.px[p].peak]

C2_Witness ==
    /\ fn = "process_cps_subpixel"
    /\ n_z = 2
    /\ result.status = "returned"
    /\ \E p \in Pixels : result.px[p].peak = 1 /\ result.px[p].value = z_scan[1]

\* C4: the height CPS returns for a pixel lies in [z_scan[0], z_scan[N-1]],
\* and is z_scan[0] or z_scan[N-1] itself when the peak is on that end.
C4_HeightInRange ==
    (fn = "process_cps_subpixel" /\ result.status = "returned") =>
        \A p \in Pixels :
            /\ z_scan[0] <= result.px[p].value
            /\ result.px[p].value <= z_scan[n_z - 1]
            /\ result.px[p].peak \in {0, n_z - 1} =>
                   result.px[p].value = z_scan[result.px[p].peak]

C4_Witness ==
    /\ fn = "process_cps_subpixel"
    /\ result.status = "returned"
    /\ \E p \in Pixels :
          /\ result.px[p].fitted
          /\ result.px[p].peak = n_z - 2
          /\ result.px[p].shift > 0
          /\ result.px[p].value > z_scan[n_z - 2]
          /\ result.px[p].value < z_scan[n_z - 1]

\* C10: in CPS the peak is the first maximum of the smoothed envelope.  With
\* the peak on index 0 or N-1 the height is the scan position there and the
\* coherence the smoothed envelope there, and no fit is made.  With the peak
\* inside, the fractional index is the peak plus the offset fitted to the
\* three smoothed samples around it; the height is the scan axis and the
\* coherence the raw (unsmoothed) envelope, each linearly interpolated at
\* that fractional index.
C10_CpsBoundaryAndInterior ==
    (fn = "process_cps_subpixel" /\ result.status = "returned") =>
        \A p \in Pixels :
            LET r == result.px[p]
                es == r.envelope_smooth
                i == r.peak
                x == i * IDX + r.shift
                j == x \div IDX
                f == x - j * IDX
                line(fp) == IF f = 0 THEN fp[j]
                            ELSE fp[j] + RoundDiv((fp[j + 1] - fp[j]) * f, IDX)
            IN  /\ i \in 0..(n_z - 1)
                /\ \A m \in 0..(n_z - 1) : es[m] <= es[i] /\ (m < i => es[m] < es[i])
                /\ i \in {0, n_z - 1} =>
                       /\ ~r.fitted
                       /\ r.value = z_scan[i]
                       /\ r.coherence = es[i]
                /\ i \notin {0, n_z - 1} =>
                       /\ r.fitted
                       /\ r.shift = parabolic_subpixel(es[i - 1], es[i], es[i + 1])
                       /\ r.value = line(z_scan)
                       /\ r.coherence = line(r.envelope)

C10_Witness ==
    /\ fn = "process_cps_subpixel"
    /\ result.status = "returned"
    /\ \E p \in Pixels, q \in Pixels :
          /\ result.px[p].peak = n_z - 1
          /\ result.px[p].coherence = result.px[p].envelope_smooth[n_z - 1]
          /\ result.px[q].fitted
          /\ result.px[q].shift # 0
          /\ result.px[q].coherence # result.px[q].envelope[result.px[q].peak]

\* C5 as stated: every wrapped phase an FFT-phase call returns lies in the
\* half-open interval (-PI, PI]: -PI itself is never produced.
C5_PhaseHalfOpen ==
    (fn \in FftFunctions /\ result.status = "returned") =>
        \A p \in Pixels : -PI < result.px[p].value /\ result.px[p].value <= PI

\* C5: every wrapped phase an FFT-phase call returns lies in the closed
\* interval [-PI, PI]; both ends are produced.
C5_PhaseClosed ==
    (fn \in FftFunctions /\ result.status = "returned") =>
        \A p \in Pixels : -PI <= result.px[p].value /\ result.px[p].value <= PI

C5_Witness ==
    /\ fn = "process_fft_phase"
    /\ result.status = "returned"
    /\ \E p \in Pixels : result.px[p].value = -PI

\* C6: the offset of every subpixel fit made by a reconstruction (CPS at an
\* inner peak, FFT phase at the clamped peak) lies in [-0.5, 0.5] samples.
C6_OffsetWithinHalfSample ==
    (fn \in FftFunctions \cup {"process_cps_subpixel"} /\ result.status = "returned") =>
        \A p \in Pixels :
            result.px[p].fitted =>
                result.px[p].shift >= -(IDX \div 2) /\ result.px[p].shift <= IDX \div 2

\* C7: the subpixel fit never fails; with denom = vm1 - 2 v0 + vp1 it
\* returns 0 when |denom| < 1e-12 and 0.5 (vm1 - vp1) / denom otherwise.
C7_SubpixelPrimitive ==
    off.fn # "none" =>
        LET denom == tri[1] - 2 * tri[2] + tri[3]
        IN  /\ off.value \in Int
            /\ Abs(denom) < EPS => off.value = 0
            /\ Abs(denom) >= EPS =>
                   off.value = RoundDiv(IDX * (tri[1] - tri[3]), 2 * denom)

C7_Witness ==
    /\ off.fn = "processing._parabolic_subpixel"
    /\ tri[1] = tri[2] /\ tri[2] = tri[3] /\ tri[1] > 0
    /\ off.value = 0

\* C3: FFT-phase reconstruction offers both modes.  The direct carrier-bin
\* readout ends in the carrier-not-found error exactly when the forward
\* transform has no strictly positive frequency bin (a scan axis of 1 or 2
\* points); otherwise its carrier is a strictly positive bin whose
\* pixel-averaged magnitude no other positive bin exceeds.  The envelope-peak
\* mode never ends in that error.
C3_ModeChoiceAndCarrier ==
    /\ fn = "process_fft_phase" => result.status \in {"ValueError", "returned"}
    /\ fn = "fft_phase_mode_b" =>
          LET bins == {k \in 1..(n_z - 1) : 2 * k < n_z}
              S == [p \in Pixels |-> fft(stack[p], n_z)]
              ms == mean_spectrum(S, n_z)
          IN  /\ bins = {} <=> result.status = "CarrierNotFound"
              /\ bins # {} =>
                    /\ result.status = "returned"
                    /\ result.center_idx \in bins
                    /\ \A j \in bins : ms[j] <= ms[result.center_idx]

C3_Witness ==
    /\ fn = "fft_phase_mode_b"
    /\ n_z = 5
    /\ result.status = "returned"
    /\ result.center_idx = 2

\* C8 as stated: when two stacks have the same intensities along the scan
\* axis at a pixel, and the scan axis and options are the same, a
\* reconstruction (CPS or FFT phase) returns the same outputs at that pixel
\* for both, whatever the other pixels hold.
C8_PixelIndependence ==
    (prev.fn # "none" /\ result.status = "returned") =>
        \A p \in Pixels :
            stack[p] = prev.stack[p] =>
                /\ result.px[p].value = prev.result.px[p].value
                /\ result.px[p].coherence = prev.result.px[p].coherence

\* C8: the same holds for CPS without condition, and for FFT phase when
\* both stacks have their pixel-averaged spectrum's maximum on the same bin
\* (the band-pass centre, which is taken from all pixels together).
C8_PixelIndependenceSameCentre ==
    (prev.fn # "none" /\ result.status = "returned") =>
        \A p \in Pixels :
            (/\ stack[p] = prev.stack[p]
             /\ fn \in FftFunctions => result.center_idx = prev.result.center_idx) =>
                /\ result.px[p].value = prev.result.px[p].value
                /\ result.px[p].coherence = prev.result.px[p].coherence

C8_Witness ==
    /\ prev.fn = "process_fft_phase"
    /\ result.status = "returned"
    /\ result.center_idx = prev.result.center_idx
    /\ \E p \in Pixels, q \in Pixels :
          /\ stack[p] = prev.stack[p]
          /\ result.px[p].value = prev.result.px[p].value
          /\ stack[q] # prev.stack[q]
          /\ result.px[q].value # prev.result.px[q].value

\* C11: in an FFT-phase call that returns (N >= 3) every pixel is fitted (no
\* boundary early exit) at the peak index moved into [1, N-2]: a peak on 0
\* is fitted at 1, a peak on N-1 at N-2, an inner peak where it is; the three
\* smoothed-envelope samples are those at i-1, i, i+1, all inside [0, N-1];
\* for N = 3 the index is 1.
C11_PeakClampedInward ==
    (fn \in FftFunctions /\ result.status = "returned") =>
        /\ n_z >= 3
        /\ \A p \in Pixels :
              LET r == result.px[p]
              IN  /\ r.fitted
                  /\ r.peak \in 0..(n_z - 1)
                  /\ r.i \in 1..(n_z - 2)
                  /\ r.peak = 0 => r.i = 1
                  /\ r.peak = n_z - 1 => r.i = n_z - 2
                  /\ r.peak \in 1..(n_z - 2) => r.i = r.peak
                  /\ {r.i - 1, r.i, r.i + 1} \subseteq DOMAIN r.envelope_smooth
                  /\ DOMAIN r.envelope_smooth = 0..(n_z - 1)
                  /\ r.vm1 = r.envelope_smooth[r.i - 1]
                  /\ r.v0 = r.envelope_smooth[r.i]
                  /\ r.vp1 = r.envelope_smooth[r.i + 1]
                  /\ n_z = 3 => r.i = 1

C11_Witness ==
    /\ fn = "process_stack_fft"
    /\ result.status = "returned"
    /\ n_z = 4
    /\ \E p \in Pixels, q \in Pixels :
          /\ result.px[p].peak = 0 /\ result.px[p].i = 1
          /\ result.px[q].peak = 3 /\ result.px[q].i = 2

\* C12 as stated: the half bandwidth of the band-pass window is
\* max(2, round(N band_frac / 2)), whichever way a half is rounded.
C12_HalfBandwidthRounded ==
    win.designed =>
        \E r \in 0..n_z :
            /\ 200 * r - n_z * band_frac <= 100
            /\ n_z * band_frac - 200 * r <= 100
            /\ win.half_bw = Max(2, r)

\* C12: the half bandwidth of the band-pass window is
\* max(2, floor(N band_frac / 2)) (truncated, not rounded), its sigma is
\* max(1, half_bw / 2), and the window has its maximum, 1, on the first
\* maximum of the pixel-averaged magnitude spectrum.
C12_HalfBandwidthTruncated ==
    win.designed =>
        /\ \E h \in 0..n_z :
              /\ 200 * h <= n_z * band_frac
              /\ n_z * band_frac < 200 * (h + 1)
              /\ win.half_bw = Max(2, h)
        /\ win.sigma2 = Max(2, win.half_bw)
        /\ win.center_idx \in 0..(n_z - 1)
        /\ \A k \in 0..(n_z - 1) :
              /\ win.mean_spectrum[k] <= win.mean_spectrum[win.center_idx]
              /\ k < win.center_idx =>
                     win.mean_spectrum[k] < win.mean_spectrum[win.center_idx]
              /\ win.band[k] <= win.band[win.center_idx]
        /\ win.band[win.center_idx] = TW

C12_Witness ==
    /\ win.designed
    /\ n_z = 6
    /\ band_frac = 90
    /\ win.half_bw = 2
    /\ win.center_idx = 2

====
